---- MODULE Spec2Model ----
(***************************************************************************)
(* Rataplay: the menu / dispatch loop (src/menu.rs) and the three games it *)
(* owns (src/games/reaction.rs, verbal_memory.rs, number_memory.rs), as a  *)
(* single-threaded state machine.  Each game is a record holding the       *)
(* fields of its struct; each handler is an operator from the old record   *)
(* to the new one, and each step of a run loop is an action.               *)
(***************************************************************************)
EXTENDS Integers, Sequences, FiniteSets

VARIABLES
    selected_index,   \* Menu.selected_index
    quit,             \* Menu.quit
    in_game,          \* Menu.in_game ("launch requested")
    menu_pc,          \* position of Menu::run
    menu_result,      \* value Menu::run returned, once it has returned
    game_result,      \* `result` of Menu::run: what the last game.run returned
    game_pc,          \* position of the running game's run loop
    reaction,         \* the ReactionGame instance of selectable_games
    verbal,           \* the VerbalMemory instance of selectable_games
    number,           \* the NumberMemory instance of selectable_games
    now,              \* the monotonic clock read by Instant::now()
    event,            \* the event event::read returned in the last step, if it was a read
    pending,          \* the events that arrived while nothing read the input, oldest first
    file_content,     \* the lines of the word list that include_str! compiled in
    main_pc,          \* position of main (src/main.rs) and of run_app inside it
    raw_mode,         \* the terminal is in raw mode
    alternate_screen, \* the terminal shows the alternate screen
    res,              \* `res` of main: what run_app returned
    printed,          \* what the process has written: `res` by println!, or the
                      \* error main returned, reported by the runtime
    exit_status,      \* how the process ended
    game              \* `game` of run_app: the ReactionGame of src/reaction.rs

vars == <<selected_index, quit, in_game, menu_pc, menu_result, game_result, game_pc,
          reaction, verbal, number, now, event, pending, file_content,
          main_pc, raw_mode, alternate_screen, res, printed, exit_status, game>>

main_vars == <<main_pc, raw_mode, alternate_screen, res, printed, exit_status, game>>

----------------------------------------------------------------------------
(* Bounds of the model *)

\* the clock advances in steps of TickMs and stops at MaxNow
TickMs == 2000
MaxNow == 12000
\* verbal memory: score is capped
MaxScore == 3
\* number memory: level and the length of the typed answer are capped
MaxLevel == 2
MaxAnswerLen == 2
\* at most MaxPending events wait unread
MaxPending == 1
\* word lists of at most MaxLines lines are loaded
MaxLines == 3

(* Program constants.  The u32 counters of the program stay far below 2^32
   within these bounds, so their arithmetic is written without the modulus; a
   u32 subtraction that would underflow shows as a negative value. *)
DefaultAttempts == 5
DelayLoMs == 2000
DelayHiMs == 4000
DefaultLives == 3
ShowingDurationMs == 1700
RandDigitLo == 0
RandDigitHi == 10

----------------------------------------------------------------------------
(* Option<T> is a sequence of length at most one *)
None == <<>>
Some(x) == <<x>>
IsSome(o) == Len(o) = 1
Unwrap(o) == o[1]

(* Input events.  A key code is a string: the named keys, or a character. *)
NamedKeys == {"Esc", "Enter", "Backspace", "Up", "Down", "Left", "Right"}
\* "arabic3" stands for U+0663, a character that is numeric and no ASCII digit
CharKeys == {"q", "w", "s", "a", "d", "x", "0", "9", "arabic3"}
KeyCodes == NamedKeys \cup CharKeys
EventKinds == {"Press", "Release", "Repeat"}
KeyEvent(kind, code) == [type |-> "Key", kind |-> kind, code |-> code]
\* every key press, and some events that are no key press
Events ==
    {KeyEvent("Press", code) : code \in KeyCodes}
        \cup {KeyEvent("Release", "Enter"), KeyEvent("Repeat", "q"),
              KeyEvent("Release", "s"), KeyEvent("Repeat", "9"),
              [type |-> "Resize", kind |-> "Press", code |-> "x"]}
\* the kind of the key event is not looked at
IsKeyPressAnyKind(ev) == ev.type = "Key"
IsKeyPress(ev) == ev.type = "Key" /\ ev.kind = "Press"
IsQuitKey(code) == code \in {"q", "Esc"}

AsciiDigits == <<"0", "1", "2", "3", "4", "5", "6", "7", "8", "9">>
\* char::is_numeric
IsNumeric(c) == c \in {AsciiDigits[i] : i \in 1..10} \cup {"arabic3"}

\* i32::to_string, as a sequence of characters
RECURSIVE to_string(_)
to_string(n) ==
    IF n < 10 THEN <<AsciiDigits[n + 1]>>
    ELSE to_string(n \div 10) \o <<AsciiDigits[(n % 10) + 1]>>

RECURSIVE Sum(_)
Sum(s) == IF s = <<>> THEN 0 ELSE Head(s) + Sum(Tail(s))

----------------------------------------------------------------------------
(* Reaction game: src/games/reaction.rs *)

\* GameState: the tag and, for Success(u32) and Stats(u32), the value carried
ReactionState(tag, ms) == [tag |-> tag, ms |-> ms]

\* ReactionGame::new
NewReactionGame ==
    [state |-> ReactionState("Title", 0),
     attempts |-> DefaultAttempts,
     done |-> 0,
     reaction_history |-> <<>>,
     start_time |-> None,
     wait_until |-> None,
     quit |-> FALSE]

\* the range is 2000..=4000
RandomDelaysInclusive == {DelayLoMs, DelayHiMs}

\* rng.random_range(2000..4000), sampled at the two ends of the range
RandomDelays == {DelayLoMs, DelayHiMs - 1}

\* ReactionGame::start_waiting, at clock reading t with the delay drawn
StartWaiting(g, t, millis) ==
    [g EXCEPT !.state = ReactionState("Waiting", 0),
              !.wait_until = Some(t + millis),
              !.start_time = None]

\* 'q' and Esc only leave the current state, as in src/reaction.rs
ReactionQuitKeyStateOnly(g) ==
    IF g.state.tag = "Title"
    THEN [g EXCEPT !.quit = TRUE]
    ELSE [g EXCEPT !.state = ReactionState("Title", 0)]

\* handle_input, the arm of 'q' and Esc
ReactionQuitKey(g) ==
    LET cleared == [g EXCEPT !.done = 0,
                             !.reaction_history = <<>>,
                             !.start_time = None,
                             !.wait_until = None]
    IN  IF g.state.tag = "Title"
        THEN [cleared EXCEPT !.quit = TRUE]
        ELSE [cleared EXCEPT !.state = ReactionState("Title", 0)]

\* the deadline is kept when the key came too soon
ReactionWaitingPressKeepsDeadline(g) ==
    [g EXCEPT !.state = ReactionState("TooSoon", 0)]

\* handle_input, GameState::Waiting
ReactionWaitingPress(g) ==
    [g EXCEPT !.state = ReactionState("TooSoon", 0), !.wait_until = None]

\* the attempt is recorded but not counted
ReactionActivePressUncounted(g, t) ==
    IF IsSome(g.start_time)
    THEN LET duration == t - Unwrap(g.start_time)
         IN  [g EXCEPT !.reaction_history = Append(@, duration),
                       !.state = ReactionState("Success", duration)]
    ELSE g

\* handle_input, GameState::Active
ReactionActivePress(g, t) ==
    IF IsSome(g.start_time)
    THEN LET duration == t - Unwrap(g.start_time)
         IN  [g EXCEPT !.reaction_history = Append(@, duration),
                       !.done = @ + 1,
                       !.state = ReactionState("Success", duration)]
    ELSE g

\* the statistics are shown one attempt early
ReactionSuccessPressEarly(g, t, millis) ==
    IF g.done + 1 < g.attempts
    THEN StartWaiting(g, t, millis)
    ELSE LET avg == Sum(g.reaction_history) \div g.attempts
         IN  [g EXCEPT !.state = ReactionState("Stats", avg)]

\* handle_input, GameState::Success
ReactionSuccessPress(g, t, millis) ==
    IF g.done < g.attempts
    THEN StartWaiting(g, t, millis)
    ELSE LET avg == Sum(g.reaction_history) \div g.attempts
         IN  [g EXCEPT !.state = ReactionState("Stats", avg)]

\* handle_input, GameState::Stats
ReactionStatsPress(g) ==
    [g EXCEPT !.done = 0,
              !.reaction_history = <<>>,
              !.state = ReactionState("Title", 0)]

\* ReactionGame::handle_input
ReactionHandleInput(g, code, t, millis) ==
    IF IsQuitKey(code) THEN ReactionQuitKey(g)
    ELSE CASE g.state.tag = "Title" -> StartWaiting(g, t, millis)
           [] g.state.tag = "Waiting" -> ReactionWaitingPress(g)
           [] g.state.tag = "TooSoon" -> StartWaiting(g, t, millis)
           [] g.state.tag = "Active" -> ReactionActivePress(g, t)
           [] g.state.tag = "Success" -> ReactionSuccessPress(g, t, millis)
           [] g.state.tag = "Stats" -> ReactionStatsPress(g)

\* the deadline is not compared with the clock
ReactionUpdateGameNoDeadline(g, t) ==
    IF g.state.tag = "Waiting" /\ IsSome(g.wait_until)
    THEN [g EXCEPT !.state = ReactionState("Active", 0),
                   !.start_time = Some(t),
                   !.wait_until = None]
    ELSE g

\* ReactionGame::update
ReactionUpdateGame(g, t) ==
    IF g.state.tag = "Waiting" /\ IsSome(g.wait_until) /\ t >= Unwrap(g.wait_until)
    THEN [g EXCEPT !.state = ReactionState("Active", 0),
                   !.start_time = Some(t),
                   !.wait_until = None]
    ELSE g

----------------------------------------------------------------------------
(* Verbal memory game: src/games/verbal_memory.rs *)

\* assets/palabras.txt as str::lines() yields it, each line a sequence of characters
PalabrasLines ==
    << <<"s", "o", "l">>, <<" ", "m", "a", "r", " ">>, <<"l", "u", "z", " ">> >>

IsWhitespace(c) == c \in {" ", "\t"}

RECURSIVE TrimStart(_)
TrimStart(line) ==
    IF line # <<>> /\ IsWhitespace(Head(line)) THEN TrimStart(Tail(line)) ELSE line

RECURSIVE TrimEnd(_)
TrimEnd(line) ==
    IF line # <<>> /\ IsWhitespace(line[Len(line)])
    THEN TrimEnd(SubSeq(line, 1, Len(line) - 1))
    ELSE line

\* str::trim
Trim(line) == TrimEnd(TrimStart(line))

\* VerbalMemory::new
NewVerbalMemory ==
    [state |-> "Title",
     words |-> <<>>,
     words_seen |-> {},
     word_shown |-> None,
     lives |-> DefaultLives,
     score |-> 0,
     choice |-> "SEEN",
     quit |-> FALSE]

\* VerbalMemory::init_words_vec
InitWordsVec(g) ==
    IF g.words # <<>> THEN g
    ELSE [g EXCEPT !.words = [i \in 1..Len(file_content) |-> Trim(file_content[i])]]

\* VerbalMemory::clear_progress
ClearProgress(g) ==
    [g EXCEPT !.words_seen = {},
              !.lives = DefaultLives,
              !.score = 0,
              !.word_shown = None]

\* the reset drops the word pool as quit_game does
VerbalResetGameDropsPool(g) == [ClearProgress(g) EXCEPT !.words = <<>>]

\* VerbalMemory::reset_game
VerbalResetGame(g) == ClearProgress(g)

\* VerbalMemory::quit_game
VerbalQuitGame(g) == [ClearProgress(g) EXCEPT !.words = <<>>, !.quit = FALSE]

\* the values assign_random_word_based_on_progress can draw: words.choose on the
\* 70% arm, words_seen.iter().choose on the 30% arm (None from an empty collection)
RandomWords(g) ==
    (IF g.words = <<>> THEN {None} ELSE {Some(g.words[i]) : i \in 1..Len(g.words)})
        \cup (IF g.words_seen = {} THEN {None} ELSE {Some(w) : w \in g.words_seen})

\* VerbalMemory::assign_random_word_based_on_progress: the possible results
AssignRandomWord(g) == {[g EXCEPT !.word_shown = w] : w \in RandomWords(g)}

\* handle_input, the arm of 'q' and Esc
VerbalQuitKey(g) ==
    LET r == VerbalResetGame(g)
    IN  IF r.state = "Title" THEN [r EXCEPT !.quit = TRUE]
        ELSE [r EXCEPT !.state = "Title"]

\* a wrong answer also resets the score
VerbalScoreRoundStreak(g) ==
    LET is_seen == IsSome(g.word_shown) /\ Unwrap(g.word_shown) \in g.words_seen
        is_new == ~is_seen
    IN  IF g.choice = "SEEN"
        THEN IF is_seen
             THEN [g EXCEPT !.score = @ + 1]
             ELSE [g EXCEPT !.lives = @ - 1, !.score = 0]
        ELSE LET h == IF is_new
                      THEN [g EXCEPT !.score = @ + 1]
                      ELSE [g EXCEPT !.lives = @ - 1, !.score = 0]
             IN  IF IsSome(g.word_shown)
                 THEN [h EXCEPT !.words_seen = @ \cup {Unwrap(g.word_shown)}]
                 ELSE h

\* the choice NEW is scored by the test of the choice SEEN
VerbalScoreRoundInverted(g) ==
    LET is_seen == IsSome(g.word_shown) /\ Unwrap(g.word_shown) \in g.words_seen
    IN  LET h == IF is_seen
                 THEN [g EXCEPT !.score = @ + 1]
                 ELSE [g EXCEPT !.lives = @ - 1]
        IN  IF g.choice = "NEW" /\ IsSome(g.word_shown)
            THEN [h EXCEPT !.words_seen = @ \cup {Unwrap(g.word_shown)}]
            ELSE h

\* the word is recorded whatever the choice
VerbalScoreRoundAlwaysInserts(g) ==
    LET is_seen == IsSome(g.word_shown) /\ Unwrap(g.word_shown) \in g.words_seen
        h == IF (g.choice = "SEEN") = is_seen
             THEN [g EXCEPT !.score = @ + 1]
             ELSE [g EXCEPT !.lives = @ - 1]
    IN  IF IsSome(g.word_shown)
        THEN [h EXCEPT !.words_seen = @ \cup {Unwrap(g.word_shown)}]
        ELSE h

\* handle_input, Showing and Enter: score and lives adjusted, the word recorded
VerbalScoreRound(g) ==
    LET is_seen == IsSome(g.word_shown) /\ Unwrap(g.word_shown) \in g.words_seen
        is_new == ~is_seen
    IN  IF g.choice = "SEEN"
        THEN IF is_seen
             THEN [g EXCEPT !.score = @ + 1]
             ELSE [g EXCEPT !.lives = @ - 1]
        ELSE LET h == IF is_new
                      THEN [g EXCEPT !.score = @ + 1]
                      ELSE [g EXCEPT !.lives = @ - 1]
             IN  IF IsSome(g.word_shown)
                 THEN [h EXCEPT !.words_seen = @ \cup {Unwrap(g.word_shown)}]
                 ELSE h

\* the game-over test is `lives < 0`
VerbalProgressStrict(g) ==
    IF g.lives < 0 THEN {[g EXCEPT !.state = "End"]} ELSE AssignRandomWord(g)

\* handle_input, Showing and Enter: game over or the next word
VerbalProgress(g) ==
    IF g.lives <= 0 THEN {[g EXCEPT !.state = "End"]} ELSE AssignRandomWord(g)

\* any key leaves End
VerbalStateInputAnyKeyRestarts(g, code) ==
    CASE g.state = "Title" ->
           IF code = "Enter"
           THEN {[h EXCEPT !.state = "Showing"] : h \in AssignRandomWord(g)}
           ELSE {g}
      [] g.state = "Showing" ->
           IF code \in {"a", "Left"} THEN {[g EXCEPT !.choice = "SEEN"]}
           ELSE IF code \in {"d", "Right"} THEN {[g EXCEPT !.choice = "NEW"]}
           ELSE IF code = "Enter" THEN VerbalProgress(VerbalScoreRound(g))
           ELSE {g}
      [] g.state = "End" -> {VerbalResetGame([g EXCEPT !.state = "Title"])}

\* handle_input, the state-specific match
VerbalStateInput(g, code) ==
    CASE g.state = "Title" ->
           IF code = "Enter"
           THEN {[h EXCEPT !.state = "Showing"] : h \in AssignRandomWord(g)}
           ELSE {g}
      [] g.state = "Showing" ->
           IF code \in {"a", "Left"} THEN {[g EXCEPT !.choice = "SEEN"]}
           ELSE IF code \in {"d", "Right"} THEN {[g EXCEPT !.choice = "NEW"]}
           ELSE IF code = "Enter" THEN VerbalProgress(VerbalScoreRound(g))
           ELSE {g}
      [] g.state = "End" ->
           IF code = "Enter" THEN {VerbalResetGame([g EXCEPT !.state = "Title"])}
           ELSE {g}

\* VerbalMemory::handle_input: the possible results
VerbalHandleInput(g, code) ==
    VerbalStateInput(IF IsQuitKey(code) THEN VerbalQuitKey(g) ELSE g, code)

----------------------------------------------------------------------------
(* Number memory game: src/games/number_memory.rs *)

\* NumberMemory::new
NewNumberMemory ==
    [state |-> "Title",
     number |-> None,
     answer |-> None,
     level |-> 1,
     quit |-> FALSE,
     show_start |-> None,
     showing_duration |-> ShowingDurationMs]

\* rng.random_range(0..10), sampled at the two ends of the range
RandomDigits == {RandDigitLo, RandDigitHi - 1}

\* NumberMemory::generate_random_number: the strings it can return for a level
RECURSIVE RandomNumbers(_)
RandomNumbers(level) ==
    IF level = 0 THEN {<<>>}
    ELSE {to_string(d) \o rest : d \in RandomDigits, rest \in RandomNumbers(level - 1)}

\* the range is 0..=level
GenerateRandomNumberInclusive(g) == RandomNumbers(g.level + 1)

GenerateRandomNumber(g) == RandomNumbers(g.level)

\* NumberMemory::show_number: the possible results
ShowNumber(g, t) ==
    {[g EXCEPT !.state = "Showing",
               !.show_start = Some(t),
               !.number = Some(n),
               !.answer = Some(<<>>)] : n \in GenerateRandomNumber(g)}

\* NumberMemory::check_to_change_waiting
CheckToChangeWaiting(g, t) ==
    IF IsSome(g.show_start) /\ t - Unwrap(g.show_start) >= g.showing_duration
    THEN [g EXCEPT !.state = "Waiting"]
    ELSE g

\* NumberMemory::init_game
InitGame(g) == [g EXCEPT !.answer = Some(<<>>)]

\* the number of the last round is kept
ResetCommonKeepsNumber(g) ==
    [g EXCEPT !.state = "Title",
              !.answer = None,
              !.show_start = None,
              !.level = 1]

\* NumberMemory::reset_common
ResetCommon(g) ==
    [g EXCEPT !.state = "Title",
              !.answer = None,
              !.number = None,
              !.show_start = None,
              !.level = 1]

\* NumberMemory::quit_game
NumberQuitGame(g) == ResetCommon([g EXCEPT !.quit = TRUE])

\* NumberMemory::reset_game
NumberResetGame(g) == [ResetCommon(g) EXCEPT !.answer = Some(<<>>)]

\* the answer is compared with the number by length
AnswerEqualByLength(g) ==
    IsSome(g.answer) /\ IsSome(g.number) /\ Len(Unwrap(g.answer)) = Len(Unwrap(g.number))

\* handle_input, Waiting and Enter: the comparison of answer and number
AnswerEqual(g) == IsSome(g.answer) /\ IsSome(g.number) /\ Unwrap(g.answer) = Unwrap(g.number)

\* a matching answer skips a level
NumberSubmitSkipsLevel(g) ==
    IF AnswerEqual(g)
    THEN [g EXCEPT !.level = @ + 2, !.state = "Success"]
    ELSE [g EXCEPT !.state = "End"]

\* a matching answer leaves the level as it is
NumberSubmitKeepsLevel(g) ==
    IF AnswerEqual(g)
    THEN [g EXCEPT !.state = "Success"]
    ELSE [g EXCEPT !.state = "End"]

\* handle_input, Waiting and Enter
NumberSubmit(g) ==
    IF AnswerEqual(g)
    THEN [g EXCEPT !.level = @ + 1, !.state = "Success"]
    ELSE [g EXCEPT !.state = "End"]

\* Backspace empties the answer
NumberWaitingInputBackspaceClears(g, code) ==
    IF code = "Enter" THEN NumberSubmit(g)
    ELSE IF code = "Backspace"
    THEN IF IsSome(g.answer) THEN [g EXCEPT !.answer = Some(<<>>)] ELSE g
    ELSE IF code \in CharKeys /\ IsSome(g.answer) /\ IsNumeric(code)
    THEN [g EXCEPT !.answer = Some(Append(Unwrap(@), code))]
    ELSE g

\* handle_input, GameState::Waiting
NumberWaitingInput(g, code) ==
    IF code = "Enter" THEN NumberSubmit(g)
    ELSE IF code = "Backspace"
    THEN IF IsSome(g.answer) /\ Unwrap(g.answer) # <<>>
         THEN [g EXCEPT !.answer =
                   Some(SubSeq(Unwrap(@), 1, Len(Unwrap(@)) - 1))]
         ELSE g
    ELSE IF code \in CharKeys /\ IsSome(g.answer) /\ IsNumeric(code)
    THEN [g EXCEPT !.answer = Some(Append(Unwrap(@), code))]
    ELSE g

\* NumberMemory::handle_input: the possible results
NumberHandleInput(g, code, t) ==
    IF IsQuitKey(code) /\ g.state # "Title" THEN {NumberResetGame(g)}
    ELSE LET h == IF IsQuitKey(code) THEN NumberQuitGame(g) ELSE g
         IN  CASE h.state = "Title" -> ShowNumber(h, t)
               [] h.state = "Showing" -> {h}
               [] h.state = "Waiting" -> {NumberWaitingInput(h, code)}
               [] h.state = "Success" -> ShowNumber(h, t)
               [] h.state = "End" -> {NumberResetGame(h)}

----------------------------------------------------------------------------
(* Menu: src/menu.rs *)

\* get_all_games
selectable_games == <<"ReactionGame", "VerbalMemory", "NumberMemory">>

\* the game Menu::run calls into
SelectedGame == selectable_games[selected_index + 1]
Running(name) == menu_pc = "game" /\ SelectedGame = name

\* the index is incremented without the test against the length
MenuDownUnclamped(idx) == idx + 1

\* handle_key_event, KeyCode::Char('s') | KeyCode::Down
MenuDown(idx) == IF idx + 1 < Len(selectable_games) THEN idx + 1 ELSE idx

\* handle_key_event, KeyCode::Char('w') | KeyCode::Up
MenuUp(idx) == IF idx > 0 THEN idx - 1 ELSE idx

\* Esc and 'q' set the quit flag only
MenuHandleKeyEventQuitOnly(code) ==
    /\ selected_index' =
          IF code \in {"s", "Down"} THEN MenuDown(selected_index)
          ELSE IF code \in {"w", "Up"} THEN MenuUp(selected_index)
          ELSE selected_index
    /\ in_game' = IF code = "Enter" THEN TRUE ELSE in_game
    /\ quit' = IF IsQuitKey(code) THEN TRUE ELSE quit

\* Menu::handle_key_event
MenuHandleKeyEvent(code) ==
    /\ selected_index' =
          IF code \in {"s", "Down"} THEN MenuDown(selected_index)
          ELSE IF code \in {"w", "Up"} THEN MenuUp(selected_index)
          ELSE selected_index
    /\ in_game' = IF IsQuitKey(code) \/ code = "Enter" THEN TRUE ELSE in_game
    /\ quit' = IF IsQuitKey(code) THEN TRUE ELSE quit

menu_vars == <<selected_index, quit, in_game, menu_pc, menu_result, game_result>>
game_vars == <<reaction, verbal, number>>

\* Menu::run, `while !self.quit` holds: the inner loop is entered
MenuLoop ==
    /\ menu_pc = "outer" /\ ~quit
    /\ menu_pc' = "inner"
    /\ event' = None
    /\ UNCHANGED <<selected_index, quit, in_game, menu_result, game_result, game_pc, game_vars, now>>
    /\ UNCHANGED main_vars
    /\ UNCHANGED pending
    /\ UNCHANGED file_content

\* Menu::run, the inner loop: `while !self.in_game` holds, the frame is drawn
MenuDraw ==
    /\ menu_pc = "inner" /\ ~in_game
    /\ menu_pc' = "read"
    /\ event' = None
    /\ UNCHANGED <<selected_index, quit, in_game, menu_result, game_result, game_pc, game_vars, now>>
    /\ UNCHANGED main_vars
    /\ UNCHANGED pending
    /\ UNCHANGED file_content

\* event::read returns the oldest unread event; when none waits, the event
\* that arrives next
ReadableEvents == IF pending = <<>> THEN Events ELSE {Head(pending)}

\* the unread events after event::read
AfterRead == IF pending = <<>> THEN pending ELSE Tail(pending)

\* Menu::handle_events: one event is read
MenuHandleEvents ==
    /\ menu_pc = "read"
    /\ \E ev \in ReadableEvents :
          /\ event' = Some(ev)
          /\ pending' = AfterRead
          /\ IF IsKeyPress(ev) THEN MenuHandleKeyEvent(ev.code)
             ELSE UNCHANGED <<selected_index, in_game, quit>>
    /\ menu_pc' = "inner"
    /\ UNCHANGED <<menu_result, game_result, game_pc, game_vars, now>>
    /\ UNCHANGED main_vars
    /\ UNCHANGED file_content

\* Menu::run, the inner loop: terminal.draw or event::read fails and `?` returns
MenuIoError ==
    /\ \/ menu_pc = "inner" /\ ~in_game
       \/ menu_pc = "read"
    /\ menu_pc' = "returned"
    /\ menu_result' = "Err"
    /\ event' = None
    /\ UNCHANGED <<selected_index, quit, in_game, game_result, game_pc, game_vars, now>>
    /\ UNCHANGED main_vars
    /\ UNCHANGED pending
    /\ UNCHANGED file_content

\* the game's run is started and Menu::run does not wait for it
MenuLaunchDetached ==
    /\ menu_pc = "inner" /\ in_game /\ ~quit
    /\ menu_pc' = "outer"
    /\ game_pc' = "top"
    /\ reaction' = reaction
    /\ verbal' = IF SelectedGame = "VerbalMemory" THEN InitWordsVec(verbal) ELSE verbal
    /\ number' = IF SelectedGame = "NumberMemory" THEN InitGame(number) ELSE number
    /\ event' = None
    /\ game_result' = "none"
    /\ in_game' = FALSE
    /\ UNCHANGED <<selected_index, quit, menu_result, now>>
    /\ UNCHANGED main_vars
    /\ UNCHANGED pending
    /\ UNCHANGED file_content

\* Menu::run, game.run(terminal) is called: the prologue of the game's run
MenuLaunch ==
    /\ menu_pc = "inner" /\ in_game /\ ~quit
    /\ menu_pc' = "game"
    /\ game_pc' = "top"
    /\ reaction' = reaction
    /\ verbal' = IF SelectedGame = "VerbalMemory" THEN InitWordsVec(verbal) ELSE verbal
    /\ number' = IF SelectedGame = "NumberMemory" THEN InitGame(number) ELSE number
    /\ event' = None
    /\ game_result' = "none"
    /\ UNCHANGED <<selected_index, quit, in_game, menu_result, now>>
    /\ UNCHANGED main_vars
    /\ UNCHANGED pending
    /\ UNCHANGED file_content

\* Menu::run, `while !self.quit` ends or `if self.quit { break }` is taken: Ok(())
MenuExit ==
    /\ \/ menu_pc = "outer" /\ quit
       \/ menu_pc = "inner" /\ in_game /\ quit
    /\ menu_pc' = "returned"
    /\ menu_result' = "Ok"
    /\ event' = None
    /\ UNCHANGED <<selected_index, quit, in_game, game_result, game_pc, game_vars, now>>
    /\ UNCHANGED main_vars
    /\ UNCHANGED pending
    /\ UNCHANGED file_content

\* Menu::run, the game returned Ok(())
GameReturnsOk ==
    /\ in_game' = FALSE
    /\ menu_pc' = "outer"
    /\ game_pc' = "none"
    /\ event' = None
    /\ game_result' = "Ok"
    /\ UNCHANGED <<selected_index, quit, menu_result>>

\* Menu::run, the game returned Err
GameReturnsErr ==
    /\ quit' = TRUE
    /\ menu_pc' = "outer"
    /\ game_pc' = "none"
    /\ event' = None
    /\ game_result' = "Err"
    /\ UNCHANGED <<selected_index, in_game, menu_result>>

\* a game's terminal.draw(..).expect(..) fails: the thread panics
GamePanics ==
    /\ menu_pc' = "panicked"
    /\ game_pc' = "none"
    /\ event' = None
    /\ UNCHANGED <<selected_index, quit, in_game, menu_result, game_result>>

\* a game's run: `while !self.quit`, the frame is drawn
GameDraw(name, g) ==
    /\ Running(name) /\ game_pc = "top" /\ ~g.quit
    /\ game_pc' = "read"
    /\ event' = None
    /\ UNCHANGED <<menu_vars, game_vars, now>>
    /\ UNCHANGED main_vars
    /\ UNCHANGED pending
    /\ UNCHANGED file_content

\* a game's run: terminal.draw fails
GameDrawPanic(name, g) ==
    /\ Running(name) /\ game_pc = "top" /\ ~g.quit
    /\ GamePanics
    /\ UNCHANGED <<game_vars, now>>
    /\ UNCHANGED main_vars
    /\ UNCHANGED pending
    /\ UNCHANGED file_content

----------------------------------------------------------------------------
(* The run loops of the games *)

ReactionDraw == GameDraw("ReactionGame", reaction)

ReactionDrawPanic == GameDrawPanic("ReactionGame", reaction)

\* ReactionGame::run: poll finds an event, handle_events reads it
ReactionPollEvent ==
    /\ Running("ReactionGame") /\ game_pc = "read"
    /\ \E ev \in ReadableEvents, millis \in RandomDelays :
          /\ event' = Some(ev)
          /\ pending' = AfterRead
          /\ reaction' = IF IsKeyPress(ev)
                         THEN ReactionHandleInput(reaction, ev.code, now, millis)
                         ELSE reaction
    /\ game_pc' = "update"
    /\ UNCHANGED <<menu_vars, verbal, number, now>>
    /\ UNCHANGED main_vars
    /\ UNCHANGED file_content

\* ReactionGame::run: poll times out with no event
ReactionPollTimeout ==
    /\ Running("ReactionGame") /\ game_pc = "read"
    /\ pending = <<>>
    /\ game_pc' = "update"
    /\ UNCHANGED <<menu_vars, game_vars, now, event>>
    /\ UNCHANGED main_vars
    /\ UNCHANGED pending
    /\ UNCHANGED file_content

\* ReactionGame::run: self.update(), then the sleep
ReactionUpdate ==
    /\ Running("ReactionGame") /\ game_pc = "update"
    /\ reaction' = ReactionUpdateGame(reaction, now)
    /\ game_pc' = "top"
    /\ event' = None
    /\ UNCHANGED <<menu_vars, verbal, number, now>>
    /\ UNCHANGED main_vars
    /\ UNCHANGED pending
    /\ UNCHANGED file_content

\* ReactionGame::run: event::poll or event::read fails and `?` returns the error
ReactionIoError ==
    /\ Running("ReactionGame") /\ game_pc = "read"
    /\ GameReturnsErr
    /\ UNCHANGED <<game_vars, now>>
    /\ UNCHANGED main_vars
    /\ UNCHANGED pending
    /\ UNCHANGED file_content

\* ReactionGame::run: `while !self.quit` ends, quit is reset, Ok(())
ReactionReturn ==
    /\ Running("ReactionGame") /\ game_pc = "top" /\ reaction.quit
    /\ reaction' = [reaction EXCEPT !.quit = FALSE]
    /\ GameReturnsOk
    /\ UNCHANGED <<verbal, number, now>>
    /\ UNCHANGED main_vars
    /\ UNCHANGED pending
    /\ UNCHANGED file_content

VerbalDraw == GameDraw("VerbalMemory", verbal)

VerbalDrawPanic == GameDrawPanic("VerbalMemory", verbal)

\* VerbalMemory::run: handle_events reads one event
VerbalHandleEvents ==
    /\ Running("VerbalMemory") /\ game_pc = "read"
    /\ \E ev \in ReadableEvents :
          /\ event' = Some(ev)
          /\ pending' = AfterRead
          /\ IF IsKeyPress(ev)
             THEN /\ (verbal.state = "Showing" /\ ev.code = "Enter"
                         => VerbalScoreRound(verbal).score <= MaxScore)
                  /\ verbal' \in VerbalHandleInput(verbal, ev.code)
             ELSE verbal' = verbal
    /\ game_pc' = "top"
    /\ UNCHANGED <<menu_vars, reaction, number, now>>
    /\ UNCHANGED main_vars
    /\ UNCHANGED file_content

\* VerbalMemory::run: event::read fails and `?` returns the error
VerbalIoError ==
    /\ Running("VerbalMemory") /\ game_pc = "read"
    /\ GameReturnsErr
    /\ UNCHANGED <<game_vars, now>>
    /\ UNCHANGED main_vars
    /\ UNCHANGED pending
    /\ UNCHANGED file_content

\* VerbalMemory::run: `while !self.quit` ends, quit_game, Ok(())
VerbalReturn ==
    /\ Running("VerbalMemory") /\ game_pc = "top" /\ verbal.quit
    /\ verbal' = VerbalQuitGame(verbal)
    /\ GameReturnsOk
    /\ UNCHANGED <<reaction, number, now>>
    /\ UNCHANGED main_vars
    /\ UNCHANGED pending
    /\ UNCHANGED file_content

NumberDraw == GameDraw("NumberMemory", number)

NumberDrawPanic == GameDrawPanic("NumberMemory", number)

\* the step of NumberMemory::run would leave the bounds of the model
NumberOutOfBounds(code) ==
    /\ number.state = "Waiting"
    /\ \/ code = "Enter" /\ AnswerEqual(number) /\ number.level >= MaxLevel
       \/ /\ NumberWaitingInput(number, code) # number
          /\ Len(Unwrap(NumberWaitingInput(number, code).answer)) > MaxAnswerLen

\* NumberMemory::run, state other than Showing: handle_events reads one event
NumberHandleEvents ==
    /\ Running("NumberMemory") /\ game_pc = "read"
    /\ number.state # "Showing"
    /\ \E ev \in ReadableEvents :
          /\ event' = Some(ev)
          /\ pending' = AfterRead
          /\ IF IsKeyPress(ev)
             THEN /\ ~NumberOutOfBounds(ev.code)
                  /\ number' \in NumberHandleInput(number, ev.code, now)
             ELSE number' = number
    /\ game_pc' = "top"
    /\ UNCHANGED <<menu_vars, reaction, verbal, now>>
    /\ UNCHANGED main_vars
    /\ UNCHANGED file_content

\* the events taken to arrive while nothing reads the input
ArrivingEvents ==
    {KeyEvent("Press", "Enter"), KeyEvent("Press", "0"), KeyEvent("Press", "q"),
     KeyEvent("Release", "Enter")}

\* an event arrives while NumberMemory::run is in Showing, where it calls
\* check_to_change_waiting and not handle_events: nothing reads the event.
\* The arrival is placed before the check of the same iteration; nothing
\* looks at the unread events in between.
NumberKeyArrives ==
    /\ Running("NumberMemory") /\ game_pc = "read"
    /\ number.state = "Showing"
    /\ Len(pending) < MaxPending
    /\ \E ev \in ArrivingEvents : pending' = Append(pending, ev)
    /\ UNCHANGED <<menu_vars, game_pc, game_vars, now, event>>
    /\ UNCHANGED main_vars
    /\ UNCHANGED file_content

\* NumberMemory::run, state Showing: check_to_change_waiting
NumberCheckWaiting ==
    /\ Running("NumberMemory") /\ game_pc = "read"
    /\ number.state = "Showing"
    /\ number' = CheckToChangeWaiting(number, now)
    /\ game_pc' = "top"
    /\ UNCHANGED <<menu_vars, reaction, verbal, now, event>>
    /\ UNCHANGED main_vars
    /\ UNCHANGED pending
    /\ UNCHANGED file_content

\* NumberMemory::run: event::read fails and `?` returns the error
NumberIoError ==
    /\ Running("NumberMemory") /\ game_pc = "read"
    /\ number.state # "Showing"
    /\ GameReturnsErr
    /\ UNCHANGED <<game_vars, now>>
    /\ UNCHANGED main_vars
    /\ UNCHANGED pending
    /\ UNCHANGED file_content

\* NumberMemory::run: `while !self.quit` ends, quit_game, Ok(())
NumberReturn ==
    /\ Running("NumberMemory") /\ game_pc = "top" /\ number.quit
    /\ number' = NumberQuitGame(number)
    /\ GameReturnsOk
    /\ UNCHANGED <<reaction, verbal, now>>
    /\ UNCHANGED main_vars
    /\ UNCHANGED pending
    /\ UNCHANGED file_content

\* time passes while a game's run loop executes
Tick ==
    /\ menu_pc = "game"
    /\ now + TickMs <= MaxNow
    /\ now' = now + TickMs
    /\ UNCHANGED <<menu_vars, game_pc, game_vars, event>>
    /\ UNCHANGED main_vars
    /\ UNCHANGED pending
    /\ UNCHANGED file_content

----------------------------------------------------------------------------
(* The binary: main and run_app of src/main.rs, which own the terminal and *)
(* run the ReactionGame of src/reaction.rs.  src/main.rs declares only     *)
(* `mod reaction`: the Menu and the games of src/games are not reached     *)
(* from main.                                                              *)

\* ReactionGame::new of src/reaction.rs
StandaloneNew ==
    [state |-> ReactionState("Ready", 0),
     attempts |-> DefaultAttempts,
     done |-> 0,
     reaction_history |-> <<>>,
     start_time |-> None,
     wait_until |-> None]

\* ReactionGame::start_waiting of src/reaction.rs
StandaloneStartWaiting(g, t, millis) ==
    [g EXCEPT !.state = ReactionState("Waiting", 0),
              !.wait_until = Some(t + millis),
              !.start_time = None]

\* ReactionGame::handle_input of src/reaction.rs
StandaloneHandleInput(g, code, t, millis) ==
    IF code = "q" THEN [g EXCEPT !.state = ReactionState("Ready", 0)]
    ELSE CASE g.state.tag = "Ready" -> StandaloneStartWaiting(g, t, millis)
           [] g.state.tag = "Waiting" ->
                 [g EXCEPT !.state = ReactionState("TooSoon", 0), !.wait_until = None]
           [] g.state.tag = "TooSoon" -> StandaloneStartWaiting(g, t, millis)
           [] g.state.tag = "Active" ->
                 IF IsSome(g.start_time)
                 THEN LET duration == t - Unwrap(g.start_time)
                      IN  [g EXCEPT !.reaction_history = Append(@, duration),
                                    !.done = @ + 1,
                                    !.state = ReactionState("Success", duration)]
                 ELSE g
           [] g.state.tag = "Success" ->
                 IF g.done < g.attempts
                 THEN StandaloneStartWaiting(g, t, millis)
                 ELSE LET avg == Sum(g.reaction_history) \div g.attempts
                      IN  [g EXCEPT !.state = ReactionState("Stats", avg)]
           [] g.state.tag = "Stats" ->
                 [g EXCEPT !.done = 0,
                           !.reaction_history = <<>>,
                           !.state = ReactionState("Ready", 0)]

\* ReactionGame::update of src/reaction.rs
StandaloneUpdate(g, t) ==
    IF g.state.tag = "Waiting" /\ IsSome(g.wait_until) /\ t >= Unwrap(g.wait_until)
    THEN [g EXCEPT !.state = ReactionState("Active", 0),
                   !.start_time = Some(t),
                   !.wait_until = None]
    ELSE g

menu_side == <<menu_vars, game_pc, game_vars, pending, file_content>>

InRunApp == main_pc \in {"draw", "poll", "update"}

\* main: a `?` returns the error of a setup or teardown step; the runtime
\* reports the error main returned and the process ends with a failure status
MainReturnsErr ==
    /\ main_pc' = "exited"
    /\ printed' = "main_err"
    /\ exit_status' = "failure"
    /\ event' = None
    /\ UNCHANGED <<raw_mode, alternate_screen, res, game, now, menu_side>>

\* main: enable_raw_mode()
MainEnableRawMode ==
    /\ main_pc = "enable_raw_mode"
    /\ raw_mode' = TRUE
    /\ main_pc' = "enter_alternate_screen"
    /\ UNCHANGED <<alternate_screen, res, printed, exit_status, game, now, event, menu_side>>

\* main: enable_raw_mode()? fails
MainEnableRawModeFails ==
    /\ main_pc = "enable_raw_mode"
    /\ MainReturnsErr

\* main: execute!(stdout, EnterAlternateScreen)
MainEnterAlternateScreen ==
    /\ main_pc = "enter_alternate_screen"
    /\ alternate_screen' = TRUE
    /\ main_pc' = "terminal_new"
    /\ UNCHANGED <<raw_mode, res, printed, exit_status, game, now, event, menu_side>>

\* main: execute!(stdout, EnterAlternateScreen)? fails
MainEnterAlternateScreenFails ==
    /\ main_pc = "enter_alternate_screen"
    /\ MainReturnsErr

\* main: Terminal::new(backend), then run_app is called: ReactionGame::new
MainTerminalNew ==
    /\ main_pc = "terminal_new"
    /\ game' = StandaloneNew
    /\ main_pc' = "draw"
    /\ UNCHANGED <<raw_mode, alternate_screen, res, printed, exit_status, now, event, menu_side>>

\* main: Terminal::new(backend)? fails
MainTerminalNewFails ==
    /\ main_pc = "terminal_new"
    /\ MainReturnsErr

\* run_app: a `?` returns the I/O error to main, which binds it to res
RunAppReturnsErr ==
    /\ res' = "Err"
    /\ main_pc' = "disable_raw_mode"
    /\ event' = None
    /\ UNCHANGED <<raw_mode, alternate_screen, printed, exit_status, game, now, menu_side>>

\* run_app: terminal.draw(|f| ui(f, &game))
AppDraw ==
    /\ main_pc = "draw"
    /\ main_pc' = "poll"
    /\ event' = None
    /\ UNCHANGED <<raw_mode, alternate_screen, res, printed, exit_status, game, now, menu_side>>

\* run_app: terminal.draw(..)? fails
AppDrawFails ==
    /\ main_pc = "draw"
    /\ RunAppReturnsErr

\* run_app: poll finds an event, handle_events reads it
AppPollEvent ==
    /\ main_pc = "poll"
    /\ \E ev \in Events, millis \in RandomDelays :
          /\ event' = Some(ev)
          /\ game' = IF IsKeyPress(ev)
                     THEN StandaloneHandleInput(game, ev.code, now, millis)
                     ELSE game
    /\ main_pc' = "update"
    /\ UNCHANGED <<raw_mode, alternate_screen, res, printed, exit_status, now, menu_side>>

\* run_app: poll times out with no event
AppPollTimeout ==
    /\ main_pc = "poll"
    /\ main_pc' = "update"
    /\ UNCHANGED <<raw_mode, alternate_screen, res, printed, exit_status, game, now, event, menu_side>>

\* run_app: poll(..)? or event::read()? fails
AppPollFails ==
    /\ main_pc = "poll"
    /\ RunAppReturnsErr

\* run_app: game.update()
AppUpdate ==
    /\ main_pc = "update"
    /\ game' = StandaloneUpdate(game, now)
    /\ main_pc' = "draw"
    /\ event' = None
    /\ UNCHANGED <<raw_mode, alternate_screen, res, printed, exit_status, now, menu_side>>

\* main: disable_raw_mode()
MainDisableRawMode ==
    /\ main_pc = "disable_raw_mode"
    /\ raw_mode' = FALSE
    /\ main_pc' = "leave_alternate_screen"
    /\ UNCHANGED <<alternate_screen, res, printed, exit_status, game, now, event, menu_side>>

\* main: disable_raw_mode()? fails
MainDisableRawModeFails ==
    /\ main_pc = "disable_raw_mode"
    /\ MainReturnsErr

\* main: execute!(terminal.backend_mut(), LeaveAlternateScreen)
MainLeaveAlternateScreen ==
    /\ main_pc = "leave_alternate_screen"
    /\ alternate_screen' = FALSE
    /\ main_pc' = "return"
    /\ UNCHANGED <<raw_mode, res, printed, exit_status, game, now, event, menu_side>>

\* main: execute!(.., LeaveAlternateScreen)? fails
MainLeaveAlternateScreenFails ==
    /\ main_pc = "leave_alternate_screen"
    /\ MainReturnsErr

\* main: `if let Err(err) = res { println!(..) }`, then Ok(())
MainReturn ==
    /\ main_pc = "return"
    /\ printed' = IF res = "Err" THEN "res" ELSE printed
    /\ exit_status' = "success"
    /\ main_pc' = "exited"
    /\ UNCHANGED <<raw_mode, alternate_screen, res, game, now, event, menu_side>>

\* time passes while run_app executes
TickMain ==
    /\ InRunApp
    /\ now + TickMs <= MaxNow
    /\ now' = now + TickMs
    /\ UNCHANGED <<main_vars, event, menu_side>>

----------------------------------------------------------------------------
\* Menu::new, before Menu::run reads its first event
Init ==
    /\ selected_index = 0
    /\ quit = FALSE
    /\ in_game = FALSE
    /\ menu_pc = "outer"
    /\ menu_result = "none"
    /\ game_result = "none"
    /\ game_pc = "none"
    /\ reaction = NewReactionGame
    /\ verbal = NewVerbalMemory
    /\ number = NewNumberMemory
    /\ now = 0
    /\ event = None
    /\ pending = <<>>
    /\ file_content = PalabrasLines
    /\ main_pc = "none"
    /\ raw_mode = FALSE
    /\ alternate_screen = FALSE
    /\ res = "none"
    /\ printed = "none"
    /\ exit_status = "none"
    /\ game = StandaloneNew

Next ==
    \/ MenuLoop
    \/ MenuDraw
    \/ MenuHandleEvents
    \/ MenuIoError
    \/ MenuLaunch
    \/ MenuExit
    \/ ReactionDraw
    \/ ReactionDrawPanic
    \/ ReactionPollEvent
    \/ ReactionPollTimeout
    \/ ReactionUpdate
    \/ ReactionIoError
    \/ ReactionReturn
    \/ VerbalDraw
    \/ VerbalDrawPanic
    \/ VerbalHandleEvents
    \/ VerbalIoError
    \/ VerbalReturn
    \/ NumberDraw
    \/ NumberDrawPanic
    \/ NumberHandleEvents
    \/ NumberCheckWaiting
    \/ NumberKeyArrives
    \/ NumberIoError
    \/ NumberReturn
    \/ Tick

Spec == Init /\ [][Next]_vars

\* the process starts in main; no Menu exists
InitMain ==
    /\ selected_index = 0
    /\ quit = FALSE
    /\ in_game = FALSE
    /\ menu_pc = "none"
    /\ menu_result = "none"
    /\ game_result = "none"
    /\ game_pc = "none"
    /\ reaction = NewReactionGame
    /\ verbal = NewVerbalMemory
    /\ number = NewNumberMemory
    /\ now = 0
    /\ event = None
    /\ pending = <<>>
    /\ file_content = PalabrasLines
    /\ main_pc = "enable_raw_mode"
    /\ raw_mode = FALSE
    /\ alternate_screen = FALSE
    /\ res = "none"
    /\ printed = "none"
    /\ exit_status = "none"
    /\ game = StandaloneNew

NextMain ==
    \/ MainEnableRawMode
    \/ MainEnableRawModeFails
    \/ MainEnterAlternateScreen
    \/ MainEnterAlternateScreenFails
    \/ MainTerminalNew
    \/ MainTerminalNewFails
    \/ AppDraw
    \/ AppDrawFails
    \/ AppPollEvent
    \/ AppPollTimeout
    \/ AppPollFails
    \/ AppUpdate
    \/ MainDisableRawMode
    \/ MainDisableRawModeFails
    \/ MainLeaveAlternateScreen
    \/ MainLeaveAlternateScreenFails
    \/ MainReturn
    \/ TickMain

SpecMain == InitMain /\ [][NextMain]_vars

\* the steps of ReactionGame::run: none of them waits for input, the poll
\* returns after 10 ms at the latest
ReactionLoop ==
    \/ ReactionDraw
    \/ ReactionDrawPanic
    \/ ReactionPollEvent
    \/ ReactionPollTimeout
    \/ ReactionUpdate
    \/ ReactionIoError
    \/ ReactionReturn

\* the run loop of the Reaction Game keeps executing and the clock keeps advancing
SpecFair ==
    /\ Init /\ [][Next]_vars
    /\ WF_vars(Tick)
    /\ WF_vars(ReactionLoop)

----------------------------------------------------------------------------
(* The loading of the word list, for every word list of the bounds *)

\* lines a word list can hold: empty, blank, a word, a word between blanks
SampleLines == {<<>>, <<" ">>, <<"s", "o", "l">>, <<" ", "m", "a", "r", " ">>}

\* the word lists of at most MaxLines lines
WordLists == UNION {[1..n -> SampleLines] : n \in 0..MaxLines}

\* VerbalMemory::new, with any word list compiled in
InitLoad ==
    /\ selected_index = 0
    /\ quit = FALSE
    /\ in_game = FALSE
    /\ menu_pc = "none"
    /\ menu_result = "none"
    /\ game_result = "none"
    /\ game_pc = "load"
    /\ reaction = NewReactionGame
    /\ verbal = NewVerbalMemory
    /\ number = NewNumberMemory
    /\ now = 0
    /\ event = None
    /\ pending = <<>>
    /\ file_content \in WordLists
    /\ main_pc = "none"
    /\ raw_mode = FALSE
    /\ alternate_screen = FALSE
    /\ res = "none"
    /\ printed = "none"
    /\ exit_status = "none"
    /\ game = StandaloneNew

\* VerbalMemory::run: init_words_vec, the first time
LoadWords ==
    /\ game_pc = "load"
    /\ verbal' = InitWordsVec(verbal)
    /\ game_pc' = "loaded"
    /\ UNCHANGED <<menu_vars, reaction, number, now, event, pending, file_content, main_vars>>

\* VerbalMemory::run: init_words_vec, called on the same instance again
LoadWordsAgain ==
    /\ game_pc = "loaded"
    /\ verbal' = InitWordsVec(verbal)
    /\ game_pc' = "reloaded"
    /\ UNCHANGED <<menu_vars, reaction, number, now, event, pending, file_content, main_vars>>

NextLoad == LoadWords \/ LoadWordsAgain

SpecLoad == InitLoad /\ [][NextLoad]_vars

----------------------------------------------------------------------------
(* The steps in which a run loop has read an event, and the event read *)

Pressed(code) == event' = Some(KeyEvent("Press", code))
PressedQuit == Pressed("q") \/ Pressed("Esc")
PressedAny == \E code \in KeyCodes : Pressed(code)
MenuReads == menu_pc = "read" /\ menu_pc' = "inner"
ReactionReads ==
    Running("ReactionGame") /\ game_pc = "read" /\ game_pc' = "update" /\ IsSome(event')
VerbalReads == Running("VerbalMemory") /\ game_pc = "read" /\ game_pc' = "top"
NumberReads ==
    Running("NumberMemory") /\ game_pc = "read" /\ game_pc' = "top" /\ IsSome(event')

Min(a, b) == IF a < b THEN a ELSE b
Max(a, b) == IF a > b THEN a ELSE b

----------------------------------------------------------------------------
\* C1: in the menu-launched Reaction Game, in every reachable state the number of
\* completed attempts is at most the attempts target (5) and the history holds
\* exactly one sample per completed attempt.
C1_AttemptsWithinTarget ==
    /\ reaction.attempts = DefaultAttempts
    /\ reaction.done <= reaction.attempts
    /\ Len(reaction.reaction_history) = reaction.done

\* all five attempts were completed and the statistics are shown
C1_Witness ==
    /\ reaction.state.tag = "Stats"
    /\ reaction.done = DefaultAttempts
    /\ Len(reaction.reaction_history) = DefaultAttempts

\* C2: the highlighted index is always a valid index of the game list; a press of
\* Up or 'w' lowers it by one but not below 0, a press of Down or 's' raises it by
\* one but not above len - 1, and no other step changes it.
C2_IndexInRange ==
    /\ [](selected_index \in 0..(Len(selectable_games) - 1))
    /\ [][IF MenuReads /\ (Pressed("w") \/ Pressed("Up"))
          THEN selected_index' = Max(selected_index - 1, 0)
          ELSE IF MenuReads /\ (Pressed("s") \/ Pressed("Down"))
          THEN selected_index' = Min(selected_index + 1, Len(selectable_games) - 1)
          ELSE selected_index' = selected_index]_vars

\* Down was pressed and the index is at the last of the three games
C2_Witness ==
    /\ Len(selectable_games) = 3
    /\ menu_pc = "inner"
    /\ event = Some(KeyEvent("Press", "Down"))
    /\ selected_index = 2

\* C3: a game's run is entered only with launch requested and quit not, and the
\* game that runs is the one at the highlighted index, which does not change while
\* it runs; Esc or 'q' in the menu sets both flags; once quit is set the only step
\* left is the return of Menu::run with Ok, so no game is invoked and no input is
\* read; a game returning Ok clears the launch flag and leaves quit and the index
\* as they were; a game returning an error sets quit.
C3_Dispatch ==
    [][/\ (menu_pc # "game" /\ menu_pc' = "game"
              => in_game /\ ~quit /\ selected_index' = selected_index)
       /\ (menu_pc = "game" => selected_index' = selected_index)
       /\ (MenuReads /\ PressedQuit => quit' /\ in_game')
       /\ (quit => menu_pc' = "returned" /\ menu_result' = "Ok")
       /\ (menu_pc = "game" /\ menu_pc' = "outer" /\ game_result' = "Ok"
              => ~in_game' /\ quit' = quit)
       /\ (menu_pc = "game" /\ menu_pc' = "outer" /\ game_result' = "Err"
              => quit' /\ in_game')
       /\ (menu_pc = "game" /\ menu_pc' = "outer" => game_result' \in {"Ok", "Err"})
      ]_vars

\* a game returned an error and Menu::run returned without another read
C3_Witness ==
    /\ menu_pc = "returned"
    /\ game_result = "Err"
    /\ quit
    /\ in_game
    /\ menu_result = "Ok"
\* C4: in Verbal Memory lives is never negative and the state is End exactly
\* when lives is 0; a resolving Enter in Showing ends in End if and only if it
\* leaves lives at 0; in End nothing changes the game until Enter or the quit key,
\* which return to Title with lives restored.
C4_LivesAndEnd ==
    /\ [](verbal.lives >= 0 /\ (verbal.state = "End" <=> verbal.lives = 0))
    /\ [][/\ (VerbalReads /\ Pressed("Enter") /\ verbal.state = "Showing"
                 => (verbal'.state = "End" <=> verbal'.lives = 0))
          /\ (verbal.state = "End" /\ verbal' # verbal
                 => /\ VerbalReads
                    /\ Pressed("Enter") \/ PressedQuit
                    /\ verbal'.state = "Title"
                    /\ verbal'.lives = DefaultLives)
         ]_vars

\* the last life was lost on Enter and the game is over
C4_Witness ==
    /\ Running("VerbalMemory")
    /\ event = Some(KeyEvent("Press", "Enter"))
    /\ verbal.state = "End"
    /\ verbal.lives = 0

\* C5: in Verbal Memory no step raises score by more than 1, only a resolving
\* Enter in Showing raises it, and it is lowered only by a reset (the quit key,
\* or Enter in End), which sets it to 0.
C5_ScoreMonotone ==
    [][/\ verbal'.score <= verbal.score + 1
       /\ (verbal'.score > verbal.score
              => VerbalReads /\ Pressed("Enter") /\ verbal.state = "Showing")
       /\ (verbal'.score < verbal.score
              => /\ VerbalReads
                 /\ PressedQuit \/ (Pressed("Enter") /\ verbal.state = "End")
                 /\ verbal'.score = 0)
      ]_vars

\* a session that has scored twice and then lost a life without losing score
C5_Witness ==
    /\ Running("VerbalMemory")
    /\ verbal.state = "Showing"
    /\ verbal.score >= 2
    /\ verbal.lives < DefaultLives

\* C6: Enter in Showing with a word displayed: SEEN on a seen word and NEW on an
\* unseen word give score + 1 with lives unchanged; SEEN on an unseen word and NEW
\* on a seen word give lives - 1 with score unchanged; the state stays Showing
\* while lives remain.
C6_ScoringTable ==
    [][VerbalReads /\ Pressed("Enter") /\ verbal.state = "Showing"
          /\ IsSome(verbal.word_shown)
       => LET seen == Unwrap(verbal.word_shown) \in verbal.words_seen
              gain == /\ verbal'.score = verbal.score + 1
                      /\ verbal'.lives = verbal.lives
              loss == /\ verbal'.lives = verbal.lives - 1
                      /\ verbal'.score = verbal.score
          IN  /\ (verbal.choice = "SEEN" /\ seen => gain)
              /\ (verbal.choice = "SEEN" /\ ~seen => loss)
              /\ (verbal.choice = "NEW" /\ ~seen => gain)
              /\ (verbal.choice = "NEW" /\ seen => loss)
              /\ verbal.choice \in {"SEEN", "NEW"}
              /\ (verbal'.lives > 0 => verbal'.state = "Showing")
      ]_vars

\* Scenario C: nothing seen yet, Enter with the default choice, lives 3 -> 2
C6_Witness ==
    /\ Running("VerbalMemory")
    /\ event = Some(KeyEvent("Press", "Enter"))
    /\ verbal.state = "Showing"
    /\ verbal.words_seen = {}
    /\ verbal.choice = "SEEN"
    /\ verbal.score = 0
    /\ verbal.lives = DefaultLives - 1

\* C7: in Number Memory, in Showing and in Waiting the generated number is
\* present, its length equals the level and each of its characters is a decimal
\* digit.
C7_NumberLengthIsLevel ==
    number.state \in {"Showing", "Waiting"}
        => /\ IsSome(number.number)
           /\ Len(Unwrap(number.number)) = number.level
           /\ \A i \in 1..Len(Unwrap(number.number)) :
                 Unwrap(number.number)[i] \in {AsciiDigits[d] : d \in 1..10}

\* a two-digit number is awaited at level 2
C7_Witness ==
    /\ number.state = "Waiting"
    /\ number.level = 2
    /\ Len(Unwrap(number.number)) = 2

\* C8: Enter in Waiting goes to Success with level + 1 if the answer is equal to
\* the number, character by character, and to End with level unchanged if not.
C8_SubmitAnswer ==
    [][NumberReads /\ Pressed("Enter") /\ number.state = "Waiting"
       => IF /\ IsSome(number.answer) /\ IsSome(number.number)
             /\ Len(Unwrap(number.answer)) = Len(Unwrap(number.number))
             /\ \A i \in 1..Len(Unwrap(number.number)) :
                   Unwrap(number.answer)[i] = Unwrap(number.number)[i]
          THEN number'.state = "Success" /\ number'.level = number.level + 1
          ELSE number'.state = "End" /\ number'.level = number.level
      ]_vars

\* Scenario B: the one digit of level 1 was typed and Enter gave Success, level 2
C8_Witness ==
    /\ Running("NumberMemory")
    /\ event = Some(KeyEvent("Press", "Enter"))
    /\ number.state = "Success"
    /\ number.level = 2
    /\ Len(Unwrap(number.number)) = 1
    /\ number.answer = number.number

\* C9: the quit key in Showing or End leaves the session fields of Verbal Memory
\* as VerbalMemory::new sets them: Title, empty seen-set, no word, lives 3,
\* score 0, choice SEEN.
C9_QuitRestoresFresh ==
    [][VerbalReads /\ PressedQuit /\ verbal.state \in {"Showing", "End"}
       => /\ verbal'.state = NewVerbalMemory.state
          /\ verbal'.words_seen = NewVerbalMemory.words_seen
          /\ verbal'.word_shown = NewVerbalMemory.word_shown
          /\ verbal'.lives = NewVerbalMemory.lives
          /\ verbal'.score = NewVerbalMemory.score
          /\ verbal'.choice = NewVerbalMemory.choice
      ]_vars

\* C10: in the Reaction Game the quit key in a state other than Title leaves the
\* game equal to ReactionGame::new (done 0, empty history, no start instant, no
\* deadline, Title, no exit requested); in Title it requests the exit and the
\* state stays Title.
C10_QuitClearsSession ==
    [][ReactionReads /\ PressedQuit
       => IF reaction.state.tag # "Title"
          THEN reaction' = NewReactionGame
          ELSE /\ reaction'.quit
               /\ reaction'.state.tag = "Title"
               /\ reaction' = [NewReactionGame EXCEPT !.quit = TRUE]
      ]_vars

\* 'q' was pressed after completed attempts and the game is as constructed
C10_Witness ==
    /\ Running("ReactionGame")
    /\ game_pc = "update"
    /\ event = Some(KeyEvent("Press", "q"))
    /\ reaction = NewReactionGame
    /\ now >= 2 * DelayLoMs
\* C11 (as claimed): in Number Memory, in Title both number and answer are
\* absent, and in Showing, Waiting, Success and End both are present.
C11_AbsentInTitle ==
    /\ (number.state = "Title" => number.number = None /\ number.answer = None)
    /\ (number.state \in {"Showing", "Waiting", "Success", "End"}
           => IsSome(number.number) /\ IsSome(number.answer))

\* C11 (amended): in Title the number is absent and the answer is absent or the
\* empty string; in Showing, Waiting, Success and End both are present.
C11_NumberAnswerPresence ==
    /\ number.state \in {"Title", "Showing", "Waiting", "Success", "End"}
    /\ (number.state = "Title"
           => number.number = None /\ number.answer \in {None, Some(<<>>)})
    /\ (number.state \in {"Showing", "Waiting", "Success", "End"}
           => IsSome(number.number) /\ IsSome(number.answer))

\* 'q' in a round led back to Title, where the answer is the empty string
C11_Witness ==
    /\ Running("NumberMemory")
    /\ event = Some(KeyEvent("Press", "q"))
    /\ number.state = "Title"
    /\ number.number = None
    /\ number.answer = Some(<<>>)
    /\ ~number.quit

\* C12: when a game's run returns Ok to the Menu, the game is as its constructor
\* leaves it, the exit request included.
C12_ReturnClearsSession ==
    [][menu_pc = "game" /\ menu_pc' = "outer" /\ game_result' = "Ok"
       => /\ (SelectedGame = "ReactionGame" => reaction' = NewReactionGame)
          /\ (SelectedGame = "VerbalMemory" => verbal' = NewVerbalMemory)
          /\ (SelectedGame = "NumberMemory" => number' = NewNumberMemory)
      ]_vars

\* C13: a game's run ends only by returning to Menu::run, with Ok or with the
\* I/O error of the draw, poll or read that failed.
C13_FailuresReturnErr ==
    [][menu_pc = "game" /\ menu_pc' # "game"
       => menu_pc' = "outer" /\ game_result' \in {"Ok", "Err"}
      ]_vars

\* C16: in the Reaction Game a key other than 'q' and Esc moves Title and TooSoon
\* to Waiting with a deadline d after the clock reading, 2000 <= d < 4000, and
\* moves Waiting to TooSoon with no deadline; none of these steps changes done or
\* the history.
C16_WaitingDetour ==
    [][ReactionReads /\ PressedAny /\ ~PressedQuit
          /\ reaction.state.tag \in {"Title", "Waiting", "TooSoon"}
       => /\ reaction'.done = reaction.done
          /\ reaction'.reaction_history = reaction.reaction_history
          /\ IF reaction.state.tag = "Waiting"
             THEN reaction'.state.tag = "TooSoon" /\ reaction'.wait_until = None
             ELSE /\ reaction'.state.tag = "Waiting"
                  /\ IsSome(reaction'.wait_until)
                  /\ Unwrap(reaction'.wait_until) - now >= 2000
                  /\ Unwrap(reaction'.wait_until) - now < 4000
      ]_vars

\* a key came too soon in a session that has completed attempts
C16_Witness ==
    /\ Running("ReactionGame")
    /\ event = Some(KeyEvent("Press", "x"))
    /\ reaction.state.tag = "TooSoon"
    /\ reaction.wait_until = None
    /\ reaction.done >= 1
    /\ Len(reaction.reaction_history) = reaction.done

MenuDraws == menu_pc = "inner" /\ menu_pc' = "read"

\* C17: a game's run loop is active exactly while Menu::run is inside the call
\* of game.run; the Menu draws and reads only when no run loop is active and
\* changes no game then; while a game runs, and when it is launched, the other
\* two games and the highlighted index do not change.
C17_SingleOwner ==
    /\ []((game_pc # "none") <=> (menu_pc = "game"))
    /\ [][/\ (MenuDraws \/ MenuReads
                 => game_pc = "none" /\ game_pc' = "none" /\ UNCHANGED game_vars)
          /\ (game_pc # "none"
                 => ~MenuDraws /\ ~MenuReads /\ selected_index' = selected_index)
          /\ (menu_pc = "game" \/ menu_pc' = "game"
                 => /\ (SelectedGame # "ReactionGame" => reaction' = reaction)
                    /\ (SelectedGame # "VerbalMemory" => verbal' = verbal)
                    /\ (SelectedGame # "NumberMemory" => number' = number))
         ]_vars

\* Number Memory reads input after Verbal Memory has run and returned
C17_Witness ==
    /\ menu_pc = "game"
    /\ game_pc = "read"
    /\ SelectedGame = "NumberMemory"
    /\ verbal.choice = "NEW"
    /\ number.state = "Waiting"

\* C18: an event read by the Menu or by a game that is no key event of kind
\* press changes no flag, no index and no game.
C18_OnlyPressActs ==
    [][(MenuReads \/ ReactionReads \/ VerbalReads \/ NumberReads)
          /\ IsSome(event')
          /\ (Unwrap(event').type # "Key" \/ Unwrap(event').kind # "Press")
       => UNCHANGED <<selected_index, quit, in_game, menu_result, game_result,
                      reaction, verbal, number>>
      ]_vars

\* the release of Enter was read while a word was shown
C18_Witness ==
    /\ Running("VerbalMemory")
    /\ verbal.state = "Showing"
    /\ event = Some(KeyEvent("Release", "Enter"))

\* C20: the Reaction Game moves from Waiting to TooSoon only at a clock reading
\* strictly before the deadline.
C20_TooSoonBeforeDeadline ==
    [][ReactionReads /\ reaction.state.tag = "Waiting"
          /\ reaction'.state.tag = "TooSoon"
       => IsSome(reaction.wait_until) /\ now < Unwrap(reaction.wait_until)
      ]_vars
\* C14: an I/O error that run_app returns to main is printed and the process
\* ends with a failure status; an I/O error a game returns to Menu::run makes
\* Menu::run return an error.
C14_ErrorsSurface ==
    /\ (main_pc = "exited" /\ res = "Err"
           => printed = "res" /\ exit_status = "failure")
    /\ (menu_pc = "returned" /\ game_result = "Err" => menu_result = "Err")

\* C15: when main has ended, raw mode is disabled and the alternate screen
\* has been left, whichever step of main ended it.
C15_TerminalRestored ==
    main_pc = "exited" => ~raw_mode /\ ~alternate_screen

\* C19: after the terminal setup a game's loop runs only inside a call that
\* Menu::run made for the launch requested with Enter.
C19_MenuFirst ==
    InRunApp => menu_pc = "game" /\ in_game
\* C21: in the Reaction Game the wait deadline is present exactly in the
\* state Waiting.
C21_DeadlineOnlyWaiting ==
    IsSome(reaction.wait_until) <=> reaction.state.tag = "Waiting"

\* the game waits again after a completed attempt
C21_Witness ==
    /\ Running("ReactionGame")
    /\ reaction.state.tag = "Waiting"
    /\ IsSome(reaction.wait_until)
    /\ reaction.done >= 1

\* C22: in the Reaction Game the start instant is present exactly in the
\* state Active.
C22_StartOnlyActive ==
    IsSome(reaction.start_time) <=> reaction.state.tag = "Active"

\* C23: in the menu-launched Reaction Game, Stats is entered only by a key
\* other than 'q' and Esc in Success with done equal to attempts, and carries
\* the sum of the history divided, rounding down, by the length of the
\* history; the same key in Success with done below attempts leads to Waiting.
C23_StatsAverage ==
    [][/\ (reaction'.state.tag = "Stats" /\ reaction.state.tag # "Stats"
              => /\ ReactionReads /\ PressedAny /\ ~PressedQuit
                 /\ reaction.state.tag = "Success"
                 /\ reaction.done = reaction.attempts
                 /\ Len(reaction.reaction_history) > 0
                 /\ reaction'.state.ms =
                       Sum(reaction.reaction_history) \div Len(reaction.reaction_history)
                 /\ reaction'.reaction_history = reaction.reaction_history)
       /\ (ReactionReads /\ PressedAny /\ ~PressedQuit
              /\ reaction.state.tag = "Success"
              /\ reaction.done < reaction.attempts
              => reaction'.state.tag = "Waiting")
      ]_vars

\* the statistics of five attempts, one of them slower than a clock step
C23_Witness ==
    /\ Running("ReactionGame")
    /\ reaction.state.tag = "Stats"
    /\ reaction.state.ms > 0
    /\ reaction.done = 5
    /\ Len(reaction.reaction_history) = 5

\* C27: in Number Memory the level is at least 1; a step leaves it, adds
\* exactly 1 (only a matching Enter in Waiting, which leads to Success), or
\* makes it 1 (only a key in End or a quit key); a key other than 'q' and Esc
\* in Success starts Showing with a number of the length of the level, which
\* stays; any key in End leads to Title with level 1.
C27_LevelSteps ==
    /\ [](number.level >= 1)
    /\ [][/\ number'.level \in {number.level, number.level + 1, 1}
          /\ (number'.level = number.level + 1
                 => /\ NumberReads /\ Pressed("Enter")
                    /\ number.state = "Waiting"
                    /\ number.answer = number.number
                    /\ number'.state = "Success")
          /\ (number'.level # number.level /\ number'.level = 1
                 => /\ NumberReads /\ PressedAny
                    /\ (number.state = "End" \/ PressedQuit))
          /\ (NumberReads /\ PressedAny /\ ~PressedQuit /\ number.state = "Success"
                 => /\ number'.state = "Showing"
                    /\ number'.level = number.level
                    /\ Len(Unwrap(number'.number)) = number.level)
          /\ (NumberReads /\ PressedAny /\ number.state = "End"
                 => number'.state = "Title" /\ number'.level = 1)
         ]_vars

\* a wrong answer was submitted at level 2
C27_Witness ==
    /\ Running("NumberMemory")
    /\ number.state = "End"
    /\ number.level = 2
    /\ event = Some(KeyEvent("Press", "Enter"))

\* C28: in Number Memory, in Success the answer is the generated number and
\* the level is the length of the number plus 1; in End the answer is not the
\* generated number and the level is the length of the number.
C28_SuccessAndEnd ==
    /\ (number.state = "Success"
           => /\ IsSome(number.number) /\ IsSome(number.answer)
              /\ Unwrap(number.answer) = Unwrap(number.number)
              /\ number.level = Len(Unwrap(number.number)) + 1)
    /\ (number.state = "End"
           => /\ IsSome(number.number) /\ IsSome(number.answer)
              /\ Unwrap(number.answer) # Unwrap(number.number)
              /\ number.level = Len(Unwrap(number.number)))

\* the one digit of level 1 was typed and submitted
C28_Witness ==
    /\ Running("NumberMemory")
    /\ number.state = "Success"
    /\ number.level = 2
    /\ Len(Unwrap(number.answer)) = 1
    /\ event = Some(KeyEvent("Press", "Enter"))

\* C29: in Number Memory 'q' or Esc in Title sets quit and leaves Title, no
\* number and no reveal timer; in every other state it leads to Title with
\* level 1, no number and no reveal timer, and quit stays unset.
C29_QuitKey ==
    [][NumberReads /\ PressedQuit
       => /\ number'.state = "Title"
          /\ number'.number = None
          /\ number'.show_start = None
          /\ number'.level = 1
          /\ number'.quit = (number.state = "Title")
      ]_vars

\* C30: in Verbal Memory with a word pool that is not empty, a word is shown
\* whenever the state is Showing.
C30_ShowingHasWord ==
    verbal.state = "Showing" /\ verbal.words # <<>> => IsSome(verbal.word_shown)
\* C24: the Reaction Game enters Active only from Waiting, only in the update
\* step of the run loop, only at a clock reading at or after the deadline, and
\* records that reading as the start instant; update always enters Active
\* then; and a Waiting game whose deadline the clock can reach becomes Active
\* unless a key press is read or the loop ends first.
C24_TimeDriven ==
    /\ [][/\ (reaction'.state.tag = "Active" /\ reaction.state.tag # "Active"
                 => /\ Running("ReactionGame") /\ game_pc = "update"
                    /\ reaction.state.tag = "Waiting"
                    /\ IsSome(reaction.wait_until)
                    /\ now >= Unwrap(reaction.wait_until)
                    /\ reaction'.start_time = Some(now))
          /\ (game_pc = "update" /\ game_pc' = "top"
                 /\ reaction.state.tag = "Waiting"
                 /\ now >= Unwrap(reaction.wait_until)
                 => reaction'.state.tag = "Active")
         ]_vars
    /\ ((/\ Running("ReactionGame")
         /\ reaction.state.tag = "Waiting"
         /\ Unwrap(reaction.wait_until) <= MaxNow)
        ~> (\/ reaction.state.tag = "Active"
            \/ (IsSome(event) /\ IsKeyPress(Unwrap(event)))
            \/ menu_pc # "game"))

\* update has just made the state Active, at a deadline drawn at the upper end
C24_Witness ==
    /\ Running("ReactionGame")
    /\ game_pc = "top"
    /\ reaction.state.tag = "Active"
    /\ reaction.start_time = Some(now)
    /\ now = 2 * TickMs

\* C25: Number Memory changes from Showing to Waiting only when the clock is
\* at least the reveal duration (1700 ms) past the reveal start, with number,
\* answer and level unchanged; and the run loop does not return while the
\* state is Showing, the state it is to leave for Waiting.
C25_RevealElapses ==
    [][/\ (number.state = "Showing" /\ number'.state = "Waiting"
              => /\ IsSome(number.show_start)
                 /\ now - Unwrap(number.show_start) >= 1700
                 /\ number'.number = number.number
                 /\ number'.answer = number.answer
                 /\ number'.level = number.level)
       /\ (Running("NumberMemory") /\ number.state = "Showing"
              => menu_pc' \in {"game", "panicked"})
      ]_vars
\* C26: an event that arrived while Number Memory was in Showing changes no
\* game state when it arrives, and none when the game reads input again.
C26_ShowingDropsInput ==
    [][/\ (number.state = "Showing" /\ Len(pending') > Len(pending)
              => number' = number)
       /\ (NumberReads /\ pending # <<>> => number' = number)
      ]_vars
\* the words of a sequence
Range(seq) == {seq[i] : i \in 1..Len(seq)}

C32_WordsFromPool ==
    /\ [](/\ verbal.words_seen \subseteq Range(verbal.words)
          /\ Range(verbal.word_shown) \subseteq Range(verbal.words))
    /\ [][VerbalReads => verbal'.words = verbal.words]_vars

\* two words were recorded and one of them is shown again
C32_Witness ==
    /\ Running("VerbalMemory")
    /\ verbal.state = "Showing"
    /\ Cardinality(verbal.words_seen) = 2
    /\ IsSome(verbal.word_shown)
    /\ Unwrap(verbal.word_shown) \in verbal.words_seen

\* C34: in Verbal Memory a key that is not 'q' or Esc leaves the game as it is
\* in Title and End unless it is Enter, and in Showing unless it is 'a', Left,
\* 'd', Right or Enter; Enter in End leads to Title with score 0, lives 3 and
\* an empty seen-set.
C34_InvalidInputIgnored ==
    [][VerbalReads /\ PressedAny /\ ~PressedQuit
       => /\ (verbal.state \in {"Title", "End"} /\ ~Pressed("Enter")
                 => verbal' = verbal)
          /\ (verbal.state = "Showing"
                 /\ ~(\E code \in {"a", "Left", "d", "Right", "Enter"} : Pressed(code))
                 => verbal' = verbal)
          /\ (verbal.state = "End" /\ Pressed("Enter")
                 => /\ verbal'.state = "Title"
                    /\ verbal'.score = 0
                    /\ verbal'.lives = 3
                    /\ verbal'.words_seen = {})
      ]_vars

\* a key without meaning was read after the game was over
C34_Witness ==
    /\ Running("VerbalMemory")
    /\ event = Some(KeyEvent("Press", "x"))
    /\ verbal.state = "End"
    /\ verbal.lives = 0
    /\ verbal.words_seen # {}

C35_StandaloneSession ==
    /\ [](/\ game.done <= game.attempts
          /\ Len(game.reaction_history) = game.done)
    /\ [][main_pc = "poll" /\ main_pc' = "update" /\ Pressed("q")
             /\ game.state.tag # "Ready"
          => /\ game'.state.tag = "Ready"
             /\ game'.done = 0
             /\ game'.reaction_history = <<>>
             /\ game'.start_time = None
             /\ game'.wait_until = None
         ]_vars
\* the trimmed lines that are not empty, in order
NonEmptyTrimmedLines(lines) ==
    SelectSeq([i \in 1..Len(lines) |-> Trim(lines[i])], LAMBDA w : w # <<>>)

\* C33: the loaded pool is the sequence of the trimmed lines of the word list
\* that are not empty, so it never holds the empty word; loading into a pool
\* that holds words changes nothing.
C33_PoolIsNonEmptyLines ==
    /\ [](game_pc \in {"loaded", "reloaded"}
             => /\ verbal.words = NonEmptyTrimmedLines(file_content)
                /\ <<>> \notin Range(verbal.words))
    /\ [][game_pc = "loaded" /\ game_pc' = "reloaded" /\ verbal.words # <<>>
             => verbal' = verbal]_vars

====
